---- MODULE Spec2Model ----
(***************************************************************************)
(* Proxmox-GML: the snapshot cache of collect_data, the snapshot builder   *)
(* (attribution, multi-GPU detection, per-container-per-GPU rollups) and   *)
(* the container resolver get_container_info of src/proxmox_gml.py.        *)
(*                                                                         *)
(* Python values are modelled as follows.  A dict is a function from its   *)
(* keys; the empty dict {} is the empty function.  None is the string      *)
(* "None".  The f-string key "{container_id}_{gpu_index}" of a rollup is   *)
(* the pair <<container_id, gpu_index>>.  time.time() is an integer clock. *)
(***************************************************************************)
EXTENDS Integers, Sequences, FiniteSets, TLC

VARIABLES
    now,               \* the clock read by time.time()
    last_data,         \* global last_data (line 38)
    last_update_time,  \* global last_update_time (line 39)
    pc,                \* per request thread: the line collect_data is at
    current_time,      \* per thread: local current_time (line 123)
    output,            \* per thread: local output (line 244)
    data,              \* per thread: local data (line 317)
    tested,            \* per thread: the last_update_time that line 124 read
    completed,         \* the last calls of collect_data that ended, oldest first
    feed,              \* what the telemetry script may report in this run
    host,              \* per pid: what the host's cgroup, config and pct lookups yield
    calls              \* per thread: the calls its collect_data has made so far

vars == <<now, last_data, last_update_time, pc, current_time, output, data,
          tested, completed, feed, host, calls>>

-----------------------------------------------------------------------------
(* Bounds of the model *)

MaxTime == 6

MaxTimeSeq == 11

MaxProcs == 2

Threads == {"t1", "t2"}

BuildThreads == {"t1"}

(* Program constants *)

update_interval == 5

None == "None"

EmptyDict == <<>>

Truthy(d) == DOMAIN d # {}

-----------------------------------------------------------------------------
(* get_container_info: the container resolver *)

NoAttribution == [id |-> None, name |-> None]

\* grep -E '^hostname:' conf | cut -d' ' -f2 : the pipeline's status is cut's,
\* so a file with no hostname line yields the empty string, not 'Unknown'.
\* cut prints a line that has no delimiter whole: a hostname line with no
\* space after the colon ("nospace") yields that line; a line with two spaces
\* after the colon ("twospaces") has an empty second field.
ConfLookup(f) ==
    CASE f.conf = "missing"    -> "Unknown"
      [] f.conf = "error"      -> "Unknown"
      [] f.conf = "nohostname" -> ""
      [] f.conf = "nospace"    -> "hostname:" \o f.conf_name
      [] f.conf = "twospaces"  -> ""
      [] OTHER                 -> f.conf_name

\* pct list | grep id | awk '{print $3}' : the status is awk's, so a listing
\* without the container yields the empty string, which is not 'Unknown'.
PctLookup(f, name) ==
    IF name = "Unknown" /\ f.pct # "absent"
    THEN CASE f.pct = "error"   -> name
           [] f.pct = "nomatch" -> ""
           [] OTHER             -> f.pct_name
    ELSE name

ServiceFallback(f, name) ==
    IF name = "Unknown" /\ f.service # None THEN f.service ELSE name

get_container_info(f) ==
    CASE f.cgroup = "missing"    -> NoAttribution
      [] f.cgroup = "unreadable" -> NoAttribution
      [] f.cgroup = "nolxc"      -> NoAttribution
      [] f.cgroup = "nomatch"    -> NoAttribution
      [] OTHER ->
            [id   |-> f.cid,
             name |-> ServiceFallback(f, PctLookup(f, ConfLookup(f)))]

-----------------------------------------------------------------------------
(* run_nvitop_script and the text the telemetry script prints *)

\* kind: "oserror" (the interpreter cannot be started: not a
\* CalledProcessError, so it is not caught), "none" (non-zero exit, returns
\* None) or "text".  A text has `noise` lines printed before the JSON document
\* (lines 193 and 232) and a document of form "empty", "garbage", "array" or
\* "object"; obj is the decoded object.
Out(kind, noise, form, obj) ==
    [kind |-> kind, noise |-> noise, form |-> form, obj |-> obj]

OsError == Out("oserror", 0, "empty", EmptyDict)

ExitNonZero == Out("none", 0, "empty", EmptyDict)

PrintsNothing == Out("text", 0, "empty", EmptyDict)

NotJson == Out("text", 0, "garbage", EmptyDict)

JsonArray == Out("text", 0, "array", EmptyDict)

Document(obj) == Out("text", 0, "object", obj)

NoisyDocument(obj) == Out("text", 1, "object", obj)

Falsy(out) == out.kind = "none" \/ (out.noise = 0 /\ out.form = "empty")

\* lines 137-195: gpu_data of one device; the reads of the optional fields
\* are in one try block, so the first one that raises leaves them all unset
GpuData(device) ==
    IF device.optional = "ok"
    THEN [index |-> device.index, utilization |-> device.utilization,
          graphics_clock |-> device.graphics_clock]
    ELSE [index |-> device.index, utilization |-> device.utilization]

\* lines 201-234: process_info of one GPU process; gpu_utilization is read
\* first (if the attribute exists), then the optional fields
ProcessInfo(process) ==
    LET basic == [pid |-> process.pid, gpu_index |-> process.gpu_index,
                  gpu_memory |-> process.gpu_memory]
        measured == IF process.has_sm
                    THEN ("gpu_utilization" :> process.gpu_sm_utilization) @@ basic
                    ELSE basic
    IN  IF process.optional = "ok"
        THEN ("running_time" :> process.running_time) @@ measured
        ELSE measured

\* lines 130-242: what gpu_script prints for the devices and GPU processes
\* nvitop reports: one line per try block that raised (lines 193 and 232),
\* then the JSON document (line 241)
gpu_script(devices, gpu_processes) ==
    Out("text",
        Cardinality({i \in 1..Len(devices) : devices[i].optional = "raises"})
        + Cardinality({i \in 1..Len(gpu_processes) :
                          gpu_processes[i].optional = "raises"}),
        "object",
        [gpu_info |-> [i \in 1..Len(devices) |-> GpuData(devices[i])],
         processes |-> [i \in 1..Len(gpu_processes) |->
                            ProcessInfo(gpu_processes[i])]])

-----------------------------------------------------------------------------
(* collect_data, lines 249-334: the try block that builds a Snapshot.       *)
(* Each stage yields [exc, val]: exc is "" or str(e) of the exception the   *)
(* stage raises, which the except clause of line 330 turns into the error   *)
(* Snapshot.                                                                *)

NoExc == ""

Result(exc, val) == [exc |-> exc, val |-> val]

TruthyStr(s) == s # None /\ s # ""

Has(d, k) == k \in DOMAIN d

ErrorSnapshot(ct, msg) == [timestamp |-> ct, error |-> msg]

\* line 250: json.loads(output)
JsonLoads(out) ==
    IF out.noise > 0 \/ out.form \in {"empty", "garbage"}
    THEN Result("Expecting value: line 1 column 1 (char 0)", EmptyDict)
    ELSE Result(NoExc, out)

\* line 253: nvitop_data['processes']
ProcessList(doc) ==
    CASE doc.form = "array" ->
            Result("list indices must be integers or slices, not str", <<>>)
      [] ~Has(doc.obj, "processes") -> Result("'processes'", <<>>)
      [] OTHER -> Result(NoExc, doc.obj["processes"])

\* an attribution that copies the resolver's id and leaves the name unset
AttributeIdOnly(p, h) ==
    ("container_id" :> get_container_info(h[p.pid]).id)
    @@ ("container_name" :> None) @@ p

\* lines 254-260: one process entry after attribution
Attribute(p, h) ==
    LET container_info == get_container_info(h[p.pid])
    IN  IF container_info # NoAttribution
        THEN ("container_id" :> container_info.id)
             @@ ("container_name" :> container_info.name) @@ p
        ELSE ("container_id" :> None) @@ ("container_name" :> None) @@ p

\* lines 253-260: the attribution loop
AddContainerInfo(procs, h) ==
    IF \E i \in 1..Len(procs) : ~Has(procs[i], "pid")
    THEN Result("'pid'", <<>>)
    ELSE Result(NoExc, [i \in 1..Len(procs) |-> Attribute(procs[i], h)])

\* lines 266-280: containers and container_names after the entries i..Len
RECURSIVE TrackContainers(_, _, _)
TrackContainers(procs, i, acc) ==
    IF i > Len(procs) THEN acc
    ELSE LET process == procs[i]
             container_id == process.container_id
             names == IF Has(acc.container_names, container_id)
                      THEN acc.container_names
                      ELSE acc.container_names
                           @@ (container_id :> process.container_name)
             sets == IF Has(acc.containers, container_id)
                     THEN acc.containers
                     ELSE acc.containers @@ (container_id :> {})
         IN  IF TruthyStr(container_id)
             THEN TrackContainers(procs, i + 1,
                    [container_names |-> names,
                     containers |-> [sets EXCEPT ![container_id] =
                                        @ \cup {process.gpu_index}]])
             ELSE TrackContainers(procs, i + 1, acc)

\* a filter that keeps every container that was seen on some GPU
FilterAnyGpu(tracked) ==
    [container_id \in {c \in DOMAIN tracked.containers :
                          Cardinality(tracked.containers[c]) > 0} |->
        [gpu_indices |-> tracked.containers[container_id],
         name |-> tracked.container_names[container_id]]]

\* lines 283-289: the containers whose set of GPUs has more than one element
FilterMultiGpu(tracked) ==
    [container_id \in {c \in DOMAIN tracked.containers :
                          Cardinality(tracked.containers[c]) > 1} |->
        [gpu_indices |-> tracked.containers[container_id],
         name |-> tracked.container_names[container_id]]]

\* lines 262-289
MultiGpuContainers(procs) ==
    IF \E i \in 1..Len(procs) :
          TruthyStr(procs[i].container_id) /\ ~Has(procs[i], "gpu_index")
    THEN Result("'gpu_index'", EmptyDict)
    ELSE Result(NoExc, FilterMultiGpu(TrackContainers(procs, 1,
                    [container_names |-> EmptyDict, containers |-> EmptyDict])))

\* a rollup entry that already counts the process that opens it
NewRollupCounted(container_id, container_name, gpu_index) ==
    [container_id |-> container_id, container_name |-> container_name,
     gpu_index |-> gpu_index, process_count |-> 1, total_memory |-> 0,
     gpu_utilization |-> 0]

\* lines 300-307: a new rollup entry
NewRollup(container_id, container_name, gpu_index) ==
    [container_id |-> container_id, container_name |-> container_name,
     gpu_index |-> gpu_index, process_count |-> 0, total_memory |-> 0,
     gpu_utilization |-> 0]

\* an accumulation that passes over a process with no gpu_utilization
AccumulateMeasured(entry, process) ==
    IF Has(process, "gpu_utilization")
    THEN [entry EXCEPT !.process_count = @ + 1,
                       !.total_memory = @ + process.gpu_memory,
                       !.gpu_utilization = @ + process.gpu_utilization]
    ELSE entry

\* lines 309-314: one process added to its rollup entry
Accumulate(entry, process) ==
    [entry EXCEPT !.process_count = @ + 1,
                  !.total_memory = @ + process.gpu_memory,
                  !.gpu_utilization = @ + IF Has(process, "gpu_utilization")
                                          THEN process.gpu_utilization ELSE 0]

\* lines 293-314: container_processes after the entries i..Len
RECURSIVE GroupProcesses(_, _, _)
GroupProcesses(procs, i, acc) ==
    IF i > Len(procs) THEN acc
    ELSE LET process == procs[i]
             container_id == IF TruthyStr(process.container_id)
                             THEN process.container_id ELSE "Host"
             container_name == IF TruthyStr(process.container_name)
                               THEN process.container_name ELSE "Host System"
             gpu_index == process.gpu_index
             key == <<container_id, gpu_index>>
             opened == IF Has(acc, key) THEN acc
                       ELSE acc @@ (key :> NewRollup(container_id,
                                                     container_name, gpu_index))
         IN  GroupProcesses(procs, i + 1,
                [opened EXCEPT ![key] = Accumulate(@, process)])

\* lines 291-314
ContainerProcesses(procs) ==
    LET bad == {i \in 1..Len(procs) :
                  ~Has(procs[i], "gpu_index") \/ ~Has(procs[i], "gpu_memory")}
        first == CHOOSE i \in bad : \A j \in bad : i <= j
    IN  IF bad # {}
        THEN Result(IF ~Has(procs[first], "gpu_index")
                    THEN "'gpu_index'" ELSE "'gpu_memory'", EmptyDict)
        ELSE Result(NoExc, GroupProcesses(procs, 1, EmptyDict))

\* lines 317-323: the final data structure
FinalData(ct, doc, procs, multi, rollups) ==
    IF ~Has(doc.obj, "gpu_info")
    THEN Result("'gpu_info'", EmptyDict)
    ELSE Result(NoExc,
            [timestamp |-> ct,
             gpu_info |-> doc.obj["gpu_info"],
             processes |-> procs,
             multi_gpu_containers |-> multi,
             container_processes |-> rollups])

\* an except clause that hands back what the build had collected when the
\* rollup loop failed
BuildSnapshotKeepingData(ct, out, h) ==
    LET loaded == JsonLoads(out)
        listed == ProcessList(loaded.val)
        attributed == AddContainerInfo(listed.val, h)
        multi == MultiGpuContainers(attributed.val)
        rollups == ContainerProcesses(attributed.val)
        final == FinalData(ct, loaded.val, attributed.val, multi.val, rollups.val)
    IN  CASE loaded.exc # NoExc     -> ErrorSnapshot(ct, loaded.exc)
          [] listed.exc # NoExc     -> ErrorSnapshot(ct, listed.exc)
          [] attributed.exc # NoExc -> ErrorSnapshot(ct, attributed.exc)
          [] multi.exc # NoExc      -> ErrorSnapshot(ct, multi.exc)
          [] rollups.exc # NoExc    ->
                [timestamp |-> ct, error |-> rollups.exc,
                 processes |-> attributed.val,
                 multi_gpu_containers |-> multi.val]
          [] final.exc # NoExc      -> ErrorSnapshot(ct, final.exc)
          [] OTHER                  -> final.val

\* lines 249-334: the Snapshot the try block ends with, a success Snapshot
\* (to be stored in the cache) or the error Snapshot of the except clause.
BuildSnapshot(ct, out, h) ==
    LET loaded == JsonLoads(out)
        listed == ProcessList(loaded.val)
        attributed == AddContainerInfo(listed.val, h)
        multi == MultiGpuContainers(attributed.val)
        rollups == ContainerProcesses(attributed.val)
        final == FinalData(ct, loaded.val, attributed.val, multi.val, rollups.val)
    IN  CASE loaded.exc # NoExc     -> ErrorSnapshot(ct, loaded.exc)
          [] listed.exc # NoExc     -> ErrorSnapshot(ct, listed.exc)
          [] attributed.exc # NoExc -> ErrorSnapshot(ct, attributed.exc)
          [] multi.exc # NoExc      -> ErrorSnapshot(ct, multi.exc)
          [] rollups.exc # NoExc    -> ErrorSnapshot(ct, rollups.exc)
          [] final.exc # NoExc      -> ErrorSnapshot(ct, final.exc)
          [] OTHER                  -> final.val

IsError(snapshot) == Has(snapshot, "error")

\* the calls collect_data makes, in the order it makes them: line 244 calls
\* run_nvitop_script, line 254 calls get_container_info(pid), and line 262
\* starts the aggregation (multi-GPU detection, then the rollups)
CallOf(op, arg) == [op |-> op, arg |-> arg]

ScriptCall == CallOf("run_nvitop_script", 0)

Aggregation == CallOf("aggregate", 0)

\* a loop that asks the resolver once for every pid: here a pid listed twice
\* is resolved by its first entry only
ResolverCallsOncePerPid(procs) ==
    LET bad == {i \in 1..Len(procs) : ~Has(procs[i], "pid")}
        n == IF bad = {} THEN Len(procs)
             ELSE (CHOOSE i \in bad : \A j \in bad : i <= j) - 1
        first == {i \in 1..n : \A j \in 1..(i - 1) : procs[j].pid # procs[i].pid}
    IN  IF first = 1..n
        THEN [i \in 1..n |-> CallOf("get_container_info", procs[i].pid)]
        ELSE <<CallOf("get_container_info", procs[1].pid)>>

\* lines 253-254: one get_container_info call per entry, in list order, up
\* to the first entry that has no 'pid' (the KeyError ends the loop)
ResolverCalls(procs) ==
    LET bad == {i \in 1..Len(procs) : ~Has(procs[i], "pid")}
        n == IF bad = {} THEN Len(procs)
             ELSE (CHOOSE i \in bad : \A j \in bad : i <= j) - 1
    IN  [i \in 1..n |-> CallOf("get_container_info", procs[i].pid)]

\* lines 249-289: the calls of the try block on the script output out
BuildCalls(out) ==
    LET loaded == JsonLoads(out)
        listed == ProcessList(loaded.val)
    IN  IF loaded.exc # NoExc \/ listed.exc # NoExc THEN <<>>
        ELSE ResolverCalls(listed.val)
             \o IF \A i \in 1..Len(listed.val) : Has(listed.val[i], "pid")
                THEN <<Aggregation>> ELSE <<>>

-----------------------------------------------------------------------------
(* The host and the telemetry reports the model draws its inputs from *)

Pids == {100, 200}

GpuIndices == {0, 1}

Facts(cgroup, cid, service, conf, conf_name, pct, pct_name) ==
    [cgroup |-> cgroup, cid |-> cid, service |-> service, conf |-> conf,
     conf_name |-> conf_name, pct |-> pct, pct_name |-> pct_name]

\* a process of the bare host: its cgroup record has no /lxc/ segment
OnHost == Facts("nolxc", None, None, "missing", "", "absent", "")

\* container 105, named by the hostname line of /etc/pve/lxc/105.conf
InWeb == Facts("lxc", "105", None, "hostname", "web", "listed", "web")

\* container 107, whose config file has no hostname line
InUnnamed == Facts("lxc", "107", "nginx", "nohostname", "", "listed", "web")

\* container 106, no config file and no pct: named by its systemd service
InService == Facts("lxc", "106", "jupyter", "missing", "", "absent", "")

\* another process of container 106, run by another systemd service
InOtherService == Facts("lxc", "106", "ollama", "missing", "", "absent", "")

HostFacts == {OnHost, InWeb, InUnnamed, InService, InOtherService}

Hosts == [Pids -> HostFacts]

SampleHost == (100 :> InWeb) @@ (200 :> OnHost)

\* /proc/<pid>/cgroup: absent, unreadable, without an /lxc/ segment, with an
\* /lxc/ segment that has no numeric id, or naming a container
CgroupKinds == {"missing", "unreadable", "nolxc", "nomatch", "lxc"}

\* /etc/pve/lxc/<id>.conf: absent, a grep that cannot be run, no hostname
\* line, a malformed hostname line, or a hostname line
ConfKinds == {"missing", "error", "nohostname", "nospace", "twospaces", "hostname"}

\* /usr/sbin/pct: absent, a listing that cannot be run, a listing without the
\* container, or a listing with it
PctKinds == {"absent", "error", "nomatch", "listed"}

ServiceNames == {None, "nginx"}

\* every outcome of the resolver's file reads and commands for one pid
AllFacts ==
    {Facts(cg, IF cg = "lxc" THEN "105" ELSE None, sv,
           cf, IF cf \in {"nospace", "twospaces", "hostname"} THEN "web" ELSE "",
           pl, IF pl = "listed" THEN "training-job" ELSE "") :
        cg \in CgroupKinds, sv \in ServiceNames, cf \in ConfKinds, pl \in PctKinds}

\* pid 100 on every such host, next to a process of the bare host
ResolveHosts == {(100 :> f) @@ (200 :> OnHost) : f \in AllFacts}

Reading(pid, gpu_index, gpu_memory) ==
    [pid |-> pid, gpu_index |-> gpu_index, gpu_memory |-> gpu_memory]

WithUtilization(p, u) == ("gpu_utilization" :> u) @@ p

Without(p, k) == [x \in DOMAIN p \ {k} |-> p[x]]

\* the entries lines 203-216 print, and entries of a foreign source that
\* lack one of the keys collect_data reads
ProcessReadings ==
    {Reading(pid, g, 1) : pid \in Pids, g \in GpuIndices}
    \cup {WithUtilization(Reading(pid, g, 2), 3) : pid \in Pids, g \in GpuIndices}
    \cup {Without(Reading(100, 0, 1), k) : k \in {"pid", "gpu_index", "gpu_memory"}}

ProcessLists == UNION {[1..n -> ProcessReadings] : n \in 0..MaxProcs}

GpuInfo == <<[index |-> 0, utilization |-> 40], [index |-> 1, utilization |-> 0]>>

Documents ==
    {Document([gpu_info |-> GpuInfo, processes |-> ps]) : ps \in ProcessLists}
    \cup {Document([processes |-> ps]) : ps \in ProcessLists}
    \cup {Document([gpu_info |-> GpuInfo])}

SampleDocument ==
    Document([gpu_info |-> GpuInfo,
              processes |-> <<Reading(100, 0, 1), Reading(200, 0, 1)>>])

Failures ==
    {OsError, ExitNonZero, PrintsNothing, NotJson, JsonArray,
     NoisyDocument(SampleDocument.obj)}

\* what nvitop reports of a device: optional is "raises" when a read of an
\* optional field raises on this hardware or driver
Device(index, utilization, optional) ==
    [index |-> index, utilization |-> utilization, graphics_clock |-> 1500,
     optional |-> optional]

OptionalReads == {"ok", "raises"}

DeviceLists ==
    {<<Device(0, 40, o0), Device(1, 0, o1)>> : o0, o1 \in OptionalReads}

\* what nvitop reports of a GPU process
GpuProcess(pid, gpu_index, has_sm, optional) ==
    [pid |-> pid, gpu_index |-> gpu_index, gpu_memory |-> 1, has_sm |-> has_sm,
     gpu_sm_utilization |-> 3, running_time |-> 60, optional |-> optional]

GpuProcesses ==
    {GpuProcess(pid, g, sm, o) :
        pid \in Pids, g \in GpuIndices, sm \in BOOLEAN, o \in OptionalReads}

GpuProcessLists == UNION {[1..n -> GpuProcesses] : n \in 0..MaxProcs}

\* a report of one process, pid 100
ResolveDocument ==
    Document([gpu_info |-> GpuInfo, processes |-> <<Reading(100, 0, 1)>>])

SampleFeed == {OsError, ExitNonZero, NoisyDocument(SampleDocument.obj), SampleDocument}

-----------------------------------------------------------------------------
(* collect_data as run by the request threads of ThreadedHTTPServer *)

NoOutput == PrintsNothing

\* one call of collect_data as its caller saw it: the clock value it read,
\* whether it ran the telemetry script, the value it returned (or raised),
\* and the calls it made on the way
Call(time, built, raised, value, made) ==
    [time |-> time, built |-> built, raised |-> raised, value |-> value,
     calls |-> made]

\* the log keeps the last `keep` calls (keep is 1 or 2)
Remember(log, keep, call) ==
    IF keep = 1 \/ Len(log) = 0 THEN <<call>> ELSE <<log[Len(log)], call>>

Building(t) == pc[t] \in {"l244", "l52", "l245", "l326", "l327", "l329"}

\* collect_data ends for thread t: it returns value, or raises; the locals of
\* the finished call are dropped
Return(t, keep, built, raised, value, made) ==
    /\ pc' = [pc EXCEPT ![t] = "idle"]
    /\ completed' = Remember(completed, keep,
                        Call(current_time[t], built, raised, value, made))
    /\ calls' = [calls EXCEPT ![t] = <<>>]
    /\ tested' = [tested EXCEPT ![t] = 0]
    /\ current_time' = [current_time EXCEPT ![t] = 0]
    /\ output' = [output EXCEPT ![t] = NoOutput]
    /\ data' = [data EXCEPT ![t] = EmptyDict]

Init ==
    /\ now = 0
    /\ last_data = EmptyDict
    /\ last_update_time = 0
    /\ pc = [t \in Threads |-> "idle"]
    /\ current_time = [t \in Threads |-> 0]
    /\ output = [t \in Threads |-> NoOutput]
    /\ data = [t \in Threads |-> EmptyDict]
    /\ tested = [t \in Threads |-> 0]
    /\ completed = <<>>
    /\ calls = [t \in Threads |-> <<>>]
    /\ feed = SampleFeed
    /\ host = SampleHost

\* the clock advances
Tick(max) ==
    /\ now < max
    /\ now' = now + 1
    /\ UNCHANGED <<last_data, last_update_time, pc, current_time, output, data,
                   tested, completed, feed, host, calls>>

\* line 123: current_time = time.time()
Start(t) ==
    /\ pc[t] = "idle"
    /\ pc' = [pc EXCEPT ![t] = "l124"]
    /\ current_time' = [current_time EXCEPT ![t] = now]
    /\ UNCHANGED <<now, last_data, last_update_time, output, data, tested,
                   completed, feed, host, calls>>

\* line 124, left operand: current_time - last_update_time < update_interval
\* (tested is kept only while line 125 can still be reached)
CheckTime(t) ==
    /\ pc[t] = "l124"
    /\ pc' = [pc EXCEPT ![t] =
                IF current_time[t] - last_update_time < update_interval
                THEN "l124b" ELSE "l244"]
    /\ tested' = [tested EXCEPT ![t] =
                    IF current_time[t] - last_update_time < update_interval
                    THEN last_update_time ELSE 0]
    /\ UNCHANGED <<now, last_data, last_update_time, current_time, output, data,
                   completed, feed, host, calls>>

\* line 124, right operand: and last_data
CheckData(t) ==
    /\ pc[t] = "l124b"
    /\ pc' = [pc EXCEPT ![t] = IF Truthy(last_data) THEN "l125" ELSE "l244"]
    /\ tested' = [tested EXCEPT ![t] = IF Truthy(last_data) THEN @ ELSE 0]
    /\ UNCHANGED <<now, last_data, last_update_time, current_time, output, data,
                   completed, feed, host, calls>>

\* line 125: return last_data
ReturnCached(t, keep) ==
    /\ pc[t] = "l125"
    /\ Return(t, keep, FALSE, FALSE, last_data, calls[t])
    /\ UNCHANGED <<now, last_data, last_update_time, feed, host>>

\* line 244 calls run_nvitop_script, which starts the interpreter (line 52)
CallScript(t) ==
    /\ pc[t] = "l244"
    /\ pc' = [pc EXCEPT ![t] = "l52"]
    /\ calls' = [calls EXCEPT ![t] = Append(@, ScriptCall)]
    /\ UNCHANGED <<now, last_data, last_update_time, current_time, output, data,
                   tested, completed, feed, host>>

\* lines 52-57: run_nvitop_script returns the text or None, or an exception
\* other than CalledProcessError leaves it and collect_data
ScriptDone(t, keep) ==
    /\ pc[t] = "l52"
    /\ \E out \in feed :
          IF out.kind = "oserror"
          THEN Return(t, keep, TRUE, TRUE, EmptyDict, calls[t])
          ELSE /\ pc' = [pc EXCEPT ![t] = "l245"]
               /\ output' = [output EXCEPT ![t] = out]
               /\ UNCHANGED <<current_time, data, tested, completed, calls>>
    /\ UNCHANGED <<now, last_data, last_update_time, feed, host>>

\* a try block that goes on to lines 326-327 with whatever it built, the
\* error Snapshot included
ProcessStoringErrors(t, keep) ==
    /\ pc[t] = "l245"
    /\ IF Falsy(output[t])
       THEN Return(t, keep, TRUE, FALSE,
                   ErrorSnapshot(current_time[t], "Failed to get data from nvitop"),
                   calls[t])
       ELSE /\ pc' = [pc EXCEPT ![t] = "l326"]
            /\ data' = [data EXCEPT ![t] =
                            BuildSnapshot(current_time[t], output[t], host)]
            /\ calls' = [calls EXCEPT ![t] = @ \o BuildCalls(output[t])]
            /\ UNCHANGED <<current_time, output, tested, completed>>
    /\ UNCHANGED <<now, last_data, last_update_time, feed, host>>

\* error returns that first record the time of the failed rebuild in
\* last_update_time
ProcessRecordingFailure(t, keep) ==
    /\ pc[t] = "l245"
    /\ LET snapshot == BuildSnapshot(current_time[t], output[t], host)
           made == calls[t] \o BuildCalls(output[t])
       IN  IF Falsy(output[t])
           THEN /\ Return(t, keep, TRUE, FALSE,
                          ErrorSnapshot(current_time[t], "Failed to get data from nvitop"),
                          calls[t])
                /\ last_update_time' = current_time[t]
           ELSE IF IsError(snapshot)
           THEN /\ Return(t, keep, TRUE, FALSE, snapshot, made)
                /\ last_update_time' = current_time[t]
           ELSE /\ pc' = [pc EXCEPT ![t] = "l326"]
                /\ data' = [data EXCEPT ![t] = snapshot]
                /\ calls' = [calls EXCEPT ![t] = made]
                /\ UNCHANGED <<current_time, output, tested, completed,
                               last_update_time>>
    /\ UNCHANGED <<now, last_data, feed, host>>

\* lines 245-323 and 330-334: the early error return, or the try block
Process(t, keep) ==
    /\ pc[t] = "l245"
    /\ LET snapshot == BuildSnapshot(current_time[t], output[t], host)
           made == calls[t] \o BuildCalls(output[t])
       IN  IF Falsy(output[t])
           THEN Return(t, keep, TRUE, FALSE,
                       ErrorSnapshot(current_time[t], "Failed to get data from nvitop"),
                       calls[t])
           ELSE IF IsError(snapshot)
           THEN Return(t, keep, TRUE, FALSE, snapshot, made)
           ELSE /\ pc' = [pc EXCEPT ![t] = "l326"]
                /\ data' = [data EXCEPT ![t] = snapshot]
                /\ calls' = [calls EXCEPT ![t] = made]
                /\ UNCHANGED <<current_time, output, tested, completed>>
    /\ UNCHANGED <<now, last_data, last_update_time, feed, host>>

\* line 326: last_data = data
StoreData(t) ==
    /\ pc[t] = "l326"
    /\ last_data' = data[t]
    /\ pc' = [pc EXCEPT ![t] = "l327"]
    /\ UNCHANGED <<now, last_update_time, current_time, output, data, tested,
                   completed, feed, host, calls>>

\* line 327: last_update_time = current_time
StoreTime(t) ==
    /\ pc[t] = "l327"
    /\ last_update_time' = current_time[t]
    /\ pc' = [pc EXCEPT ![t] = "l329"]
    /\ UNCHANGED <<now, last_data, current_time, output, data, tested,
                   completed, feed, host, calls>>

\* line 329: return data
ReturnData(t, keep) ==
    /\ pc[t] = "l329"
    /\ Return(t, keep, TRUE, FALSE, data[t], calls[t])
    /\ UNCHANGED <<now, last_data, last_update_time, feed, host>>

\* one step of collect_data in thread t, after line 123
Step(t, keep) ==
    \/ CheckTime(t)
    \/ CheckData(t)
    \/ ReturnCached(t, keep)
    \/ CallScript(t)
    \/ ScriptDone(t, keep)
    \/ Process(t, keep)
    \/ StoreData(t)
    \/ StoreTime(t)
    \/ ReturnData(t, keep)

\* ThreadedHTTPServer: every request runs collect_data in a thread of its own
Next ==
    \/ Tick(MaxTime)
    \/ \E t \in Threads : Start(t) \/ Step(t, 1)

Spec == Init /\ [][Next]_vars

\* requests that arrive one after the other: no two calls overlap
StartAlone(t) ==
    /\ \A u \in Threads : pc[u] = "idle"
    /\ Start(t)

NextSeq ==
    \/ Tick(MaxTimeSeq)
    \/ \E t \in Threads : StartAlone(t) \/ Step(t, 2)

SpecSeq == Init /\ [][NextSeq]_vars

\* one request at a fixed clock value, for every telemetry report and host
InitBuild ==
    /\ now = 0
    /\ last_data = EmptyDict
    /\ last_update_time = 0
    /\ pc = [t \in Threads |-> "idle"]
    /\ current_time = [t \in Threads |-> 0]
    /\ output = [t \in Threads |-> NoOutput]
    /\ data = [t \in Threads |-> EmptyDict]
    /\ tested = [t \in Threads |-> 0]
    /\ completed = <<>>
    /\ calls = [t \in Threads |-> <<>>]
    /\ feed \in {{out} : out \in Failures \cup Documents}
    /\ host \in Hosts

NextBuild == \E t \in BuildThreads : StartAlone(t) \/ Step(t, 1)

SpecBuild == InitBuild /\ [][NextBuild]_vars

\* one request that resolves pid 100, for every outcome of the resolver's
\* file reads and commands
InitResolve ==
    /\ now = 0
    /\ last_data = EmptyDict
    /\ last_update_time = 0
    /\ pc = [t \in Threads |-> "idle"]
    /\ current_time = [t \in Threads |-> 0]
    /\ output = [t \in Threads |-> NoOutput]
    /\ data = [t \in Threads |-> EmptyDict]
    /\ tested = [t \in Threads |-> 0]
    /\ completed = <<>>
    /\ calls = [t \in Threads |-> <<>>]
    /\ feed = {ResolveDocument}
    /\ host \in ResolveHosts

SpecResolve == InitResolve /\ [][NextBuild]_vars

\* one request, for everything gpu_script can print on the sample host
InitScript ==
    /\ now = 0
    /\ last_data = EmptyDict
    /\ last_update_time = 0
    /\ pc = [t \in Threads |-> "idle"]
    /\ current_time = [t \in Threads |-> 0]
    /\ output = [t \in Threads |-> NoOutput]
    /\ data = [t \in Threads |-> EmptyDict]
    /\ tested = [t \in Threads |-> 0]
    /\ completed = <<>>
    /\ calls = [t \in Threads |-> <<>>]
    /\ feed \in {{gpu_script(devices, gpu_processes)} :
                    devices \in DeviceLists, gpu_processes \in GpuProcessLists}
    /\ host = SampleHost

SpecScript == InitScript /\ [][NextBuild]_vars

-----------------------------------------------------------------------------
(* Properties *)

LastCall(log) == log[Len(log)]

AllIdle == \A t \in Threads : pc[t] = "idle"

\* thread t leaves collect_data in this step
Ends(t) == pc[t] # "idle" /\ pc'[t] = "idle"

Failed(call) == call.raised \/ IsError(call.value)

SuccessKeys ==
    {"timestamp", "gpu_info", "processes", "multi_gpu_containers",
     "container_processes"}

ErrorKeys == {"timestamp", "error"}

\* every Snapshot a caller was handed, or that is stored or about to be stored
Snapshots ==
    {completed[i].value : i \in {j \in 1..Len(completed) : ~completed[j].raised}}
    \cup {d \in {last_data} \cup {data[t] : t \in Threads} : Truthy(d)}

SuccessSnapshots == {s \in Snapshots : ~IsError(s)}

\* C1: at no point are two builds of collect_data in flight at once.
C1_OneBuildInFlight == Cardinality({t \in Threads : Building(t)}) <= 1

\* C2: a caller that found the cache stale and returns while another caller's
\* rebuild is in flight is handed a Snapshot with the timestamp of that
\* rebuild (the rebuild of thread u yields timestamp current_time[u]).
C2_SameSnapshotAsRebuild ==
    [][\A t, u \in Threads :
          (t # u /\ Ends(t) /\ Building(u)
           /\ LastCall(completed').built /\ ~LastCall(completed').raised)
          => LastCall(completed').value.timestamp = current_time[u]]_vars

\* C3: of two sequential calls, the first of which ran a build and the second
\* of which comes less than update_interval after it, the second returns the
\* Snapshot the first returned and runs no build, whether the first build
\* ended in a success or an error Snapshot.
C3_Idempotent ==
    (Len(completed) = 2 /\ completed[1].built /\ ~completed[1].raised
     /\ completed[2].time - completed[1].time < update_interval)
    => (~completed[2].built /\ ~completed[2].raised
        /\ completed[2].value = completed[1].value)

\* C4: after a rebuild that ended in an error Snapshot, last_update_time is
\* the time of that rebuild, and a following call less than update_interval
\* later runs no build.
C4_FailureRecorded ==
    /\ (Len(completed) >= 1 /\ AllIdle /\ LastCall(completed).built
        /\ ~LastCall(completed).raised /\ IsError(LastCall(completed).value))
       => last_update_time = LastCall(completed).time
    /\ (Len(completed) = 2 /\ completed[1].built /\ ~completed[1].raised
        /\ IsError(completed[1].value)
        /\ completed[2].time - completed[1].time < update_interval)
       => ~completed[2].built

\* C5: sequential calls: the first call builds; after a call that returned
\* the success Snapshot built at b, a call at t with t - b < update_interval
\* returns that Snapshot without a build, and a call with
\* t - b >= update_interval runs a build whose Snapshot has timestamp t.
C5_CacheStateMachine ==
    /\ Len(completed) = 1 => completed[1].built
    /\ (Len(completed) = 2 /\ ~Failed(completed[1]))
       => IF completed[2].time - completed[1].value.timestamp < update_interval
          THEN ~completed[2].built /\ completed[2].value = completed[1].value
          ELSE /\ completed[2].built
               /\ ~completed[2].raised
               /\ completed[2].value.timestamp = completed[2].time

\* C6: a caller served from the cache, which tested the build time of an
\* earlier build (a build time other than the initial 0), is handed the
\* Snapshot of that build: it never sees one of the pair replaced and the
\* other not.
C6_AtomicReplace ==
    [][\A t \in Threads :
          (pc[t] = "l125" /\ Ends(t) /\ tested[t] > 0)
          => LastCall(completed').value.timestamp = tested[t]]_vars

\* C7: every write to last_update_time or last_data stores a timestamp that
\* is not smaller than the one it replaces.
C7_InstalledTimestampsMonotonic ==
    [][/\ last_update_time' >= last_update_time
       /\ (Truthy(last_data) => last_data'.timestamp >= last_data.timestamp)]_vars

\* the ways the telemetry read fails: the interpreter cannot be started, exits
\* non-zero, prints nothing, or prints something else than the expected object
TelemetryFails(out) ==
    \/ out.kind \in {"oserror", "none"}
    \/ out.form # "object"
    \/ ~Has(out.obj, "processes")
    \/ ~Has(out.obj, "gpu_info")

\* C8: when the telemetry read fails, collect_data does not raise: it returns
\* an error Snapshot with the call's time, a non-empty error string and no
\* other field.
C8_FailureGivesErrorSnapshot ==
    \A out \in feed :
        (TelemetryFails(out) /\ Len(completed) >= 1 /\ LastCall(completed).built)
        => /\ ~LastCall(completed).raised
           /\ DOMAIN LastCall(completed).value = ErrorKeys
           /\ LastCall(completed).value.timestamp = LastCall(completed).time
           /\ LastCall(completed).value.error # ""

AttributedEntry(p) ==
    {"pid", "gpu_index", "gpu_memory", "container_id", "container_name"}
        \subseteq DOMAIN p

\* C9: every Snapshot returned or stored is a fully populated success Snapshot
\* or a minimal error Snapshot; last_data never holds anything else than {} or
\* a success Snapshot's five fields.
C9_SuccessOrMinimalError ==
    \A s \in Snapshots :
        \/ DOMAIN s = ErrorKeys
        \/ /\ DOMAIN s = SuccessKeys
           /\ \A i \in 1..Len(s.processes) : AttributedEntry(s.processes[i])

\* a build failed in the rollup loop, after attribution and multi-GPU
\* detection, and the caller got the error Snapshot
C9_Witness ==
    /\ Len(completed) = 1
    /\ ~completed[1].raised
    /\ DOMAIN completed[1].value = ErrorKeys
    /\ completed[1].value.error = "'gpu_memory'"
    /\ last_data = EmptyDict

RECURSIVE SumProcessCount(_, _)
SumProcessCount(rollups, keys) ==
    IF keys = {} THEN 0
    ELSE LET k == CHOOSE x \in keys : TRUE
         IN  rollups[k].process_count + SumProcessCount(rollups, keys \ {k})

\* C10: in every success Snapshot no rollup has process_count 0, and the
\* process_count values add up to the number of process entries.
C10_RollupCounts ==
    \A s \in SuccessSnapshots :
        /\ \A k \in DOMAIN s.container_processes :
              s.container_processes[k].process_count # 0
        /\ SumProcessCount(s.container_processes, DOMAIN s.container_processes)
              = Len(s.processes)

\* a success Snapshot was returned in which two processes share one rollup
C10_Witness ==
    /\ Len(completed) = 1
    /\ ~Failed(completed[1])
    /\ Len(completed[1].value.processes) = 2
    /\ \E k \in DOMAIN completed[1].value.container_processes :
          completed[1].value.container_processes[k].process_count = 2

\* the container ids the processes of Snapshot s are attributed to
AttributedIds(s) ==
    {s.processes[i].container_id : i \in 1..Len(s.processes)} \ {None}

\* the GPUs on which Snapshot s lists a process of container cid
GpusOf(s, cid) ==
    {s.processes[i].gpu_index :
        i \in {j \in 1..Len(s.processes) : s.processes[j].container_id = cid}}

\* C11: in every success Snapshot the keys of multi_gpu_containers are the
\* containers whose attributed processes run on two or more distinct GPUs,
\* each entry's gpu_indices is exactly that set of GPUs, and the processes
\* of the host (no attribution) never make an entry.
C11_MultiGpuIffTwoGpus ==
    \A s \in SuccessSnapshots :
        /\ DOMAIN s.multi_gpu_containers =
              {cid \in AttributedIds(s) : Cardinality(GpusOf(s, cid)) >= 2}
        /\ \A cid \in DOMAIN s.multi_gpu_containers :
              s.multi_gpu_containers[cid].gpu_indices = GpusOf(s, cid)
        /\ None \notin DOMAIN s.multi_gpu_containers
        /\ "Host" \notin DOMAIN s.multi_gpu_containers

\* a success Snapshot was returned whose two processes are one container's
\* and run on GPU 0 and GPU 1
C11_Witness ==
    /\ Len(completed) = 1
    /\ ~Failed(completed[1])
    /\ \E cid \in DOMAIN completed[1].value.multi_gpu_containers :
          completed[1].value.multi_gpu_containers[cid].gpu_indices = {0, 1}

\* a success Snapshot was returned whose two processes are the host's and run
\* on GPU 0 and GPU 1
C11_HostOnTwoGpus ==
    /\ Len(completed) = 1
    /\ ~Failed(completed[1])
    /\ AttributedIds(completed[1].value) = {}
    /\ GpusOf(completed[1].value, None) = {0, 1}

\* C12: every process entry of a success Snapshot has container_id None if
\* and only if it has container_name None: both come from one resolver
\* result, or both are None.
C12_AttributionSymmetry ==
    \A s \in SuccessSnapshots :
        \A i \in 1..Len(s.processes) :
            (s.processes[i].container_id = None)
                <=> (s.processes[i].container_name = None)

\* a success Snapshot was returned that lists a process of a container, with
\* id and name, next to a process of the host, with neither
C12_Witness ==
    /\ Len(completed) = 1
    /\ ~Failed(completed[1])
    /\ \E i, j \in 1..Len(completed[1].value.processes) :
          /\ completed[1].value.processes[i].container_id # None
          /\ completed[1].value.processes[i].container_name # None
          /\ completed[1].value.processes[j].container_id = None
          /\ completed[1].value.processes[j].container_name = None

\* the call that ended last built a Snapshot from a report on pid 100
ResolvedCall ==
    /\ Len(completed) >= 1
    /\ LastCall(completed).built
    /\ ~Failed(LastCall(completed))
    /\ Len(LastCall(completed).value.processes) >= 1
    /\ LastCall(completed).value.processes[1].pid = 100

\* the attribution the resolver gave pid 100 in that call
ResolvedId == LastCall(completed).value.processes[1].container_id

ResolvedName == LastCall(completed).value.processes[1].container_name

\* what each source of a name holds for the container of facts f
ConfYieldsName(f) == f.conf = "hostname" /\ f.conf_name # ""

PctYieldsName(f) == f.pct = "listed" /\ f.pct_name # ""

ServiceYieldsName(f) == f.service # None

NameByPriority(f) ==
    CASE ConfYieldsName(f)    -> f.conf_name
      [] PctYieldsName(f)     -> f.pct_name
      [] ServiceYieldsName(f) -> f.service
      [] OTHER                -> "Unknown"

\* C13: the name of an attribution is the hostname of the config file if it
\* yields a name, otherwise the name of the pct listing if it yields one,
\* otherwise the systemd service name, otherwise "Unknown" (hosts whose config
\* file has a well-formed hostname line or none).
C13_NameByPriority ==
    (ResolvedCall /\ ResolvedId # None
     /\ host[100].conf \notin {"nospace", "twospaces"})
    => ResolvedName = NameByPriority(host[100])

\* C14: a lookup step that fails (no config file, no hostname line, a
\* hostname line with an empty field, a pct that fails or lists no match)
\* never ends the resolution with its empty result, and when the config
\* lookup yields no name and pct lists a name, the attribution carries the
\* name pct lists.
C14_FallThrough ==
    (ResolvedCall /\ ResolvedId # None)
    => /\ ResolvedName # ""
       /\ (host[100].conf \in {"missing", "error", "nohostname", "twospaces"}
           /\ PctYieldsName(host[100]))
          => ResolvedName = host[100].pct_name

ContainerIds == {"105", "106", "107"}

\* C15: get_container_info does not raise; it yields no attribution, or a
\* numeric container id with a name that is not empty ("Unknown" at worst).
C15_NeverRaisesValidResult ==
    /\ (Len(completed) >= 1 /\ LastCall(completed).built)
          => ~Failed(LastCall(completed))
    /\ ResolvedCall
          => \/ ResolvedId = None /\ ResolvedName = None
             \/ /\ ResolvedId \in ContainerIds
                /\ ResolvedName \notin {None, ""}

\* C16: when a read of an optional GPU or process field raised inside the
\* telemetry script, the build that reads the script's output ends in a
\* success Snapshot that carries the entries as the script collected them,
\* without the optional field.
C16_AbsentFieldStillSuccess ==
    \A out \in feed :
        (out.kind = "text" /\ out.noise > 0
         /\ Len(completed) >= 1 /\ LastCall(completed).built)
        => /\ ~Failed(LastCall(completed))
           /\ LastCall(completed).value.gpu_info = out.obj["gpu_info"]
           /\ Len(LastCall(completed).value.processes) = Len(out.obj["processes"])

\* the processes of Snapshot s that belong to the rollup of container cid
\* ("Host" for the unattributed ones) on GPU g
RollupMembers(s, cid, g) ==
    {i \in 1..Len(s.processes) :
        /\ s.processes[i].gpu_index = g
        /\ IF cid = "Host"
           THEN s.processes[i].container_id \in {None, ""}
           ELSE s.processes[i].container_id = cid}

UtilizationOf(process) ==
    IF "gpu_utilization" \in DOMAIN process THEN process.gpu_utilization ELSE 0

RECURSIVE SumMemory(_, _)
SumMemory(procs, members) ==
    IF members = {} THEN 0
    ELSE LET i == CHOOSE x \in members : TRUE
         IN  procs[i].gpu_memory + SumMemory(procs, members \ {i})

RECURSIVE SumUtilization(_, _)
SumUtilization(procs, members) ==
    IF members = {} THEN 0
    ELSE LET i == CHOOSE x \in members : TRUE
         IN  UtilizationOf(procs[i]) + SumUtilization(procs, members \ {i})

\* C17: in every success Snapshot each rollup's total_memory is the sum of
\* gpu_memory over the processes of its container and GPU, and its
\* gpu_utilization is the sum of their gpu_utilization, a process without a
\* utilization reading adding 0 while it is still counted in process_count.
C17_RollupSums ==
    \A s \in SuccessSnapshots :
        \A k \in DOMAIN s.container_processes :
            LET members == RollupMembers(s, k[1], k[2])
                rollup == s.container_processes[k]
            IN  /\ rollup.total_memory = SumMemory(s.processes, members)
                /\ rollup.gpu_utilization = SumUtilization(s.processes, members)
                /\ rollup.process_count = Cardinality(members)

\* a success Snapshot was returned with a rollup of two processes, one with
\* a utilization reading and one without
C17_Witness ==
    /\ Len(completed) = 1
    /\ ~Failed(completed[1])
    /\ \E k \in DOMAIN completed[1].value.container_processes :
          /\ completed[1].value.container_processes[k].process_count = 2
          /\ completed[1].value.container_processes[k].total_memory = 3
          /\ completed[1].value.container_processes[k].gpu_utilization = 3
          /\ \E i \in RollupMembers(completed[1].value, k[1], k[2]) :
                "gpu_utilization" \notin DOMAIN completed[1].value.processes[i]

\* the telemetry report out with its process list in the order perm
Reorder(out, perm) ==
    Document([out.obj EXCEPT !.processes =
                [i \in 1..Len(@) |-> @[perm[i]]]])

\* C18: for the same process readings and the same resolver output per pid,
\* the rollups and the multi-GPU entries of a build, container names
\* included, are the same for every ordering of the process list.
C18_OrderIndependent ==
    \A out \in feed :
        (Len(completed) >= 1 /\ LastCall(completed).built
         /\ ~Failed(LastCall(completed)))
        => \A perm \in Permutations(1..Len(out.obj["processes"])) :
              LET built == LastCall(completed).value
                  other == BuildSnapshot(built.timestamp, Reorder(out, perm), host)
              IN  /\ ~IsError(other)
                  /\ other.container_processes = built.container_processes
                  /\ other.multi_gpu_containers = built.multi_gpu_containers

\* the positions of the log of calls made at which op was called
CallsOf(made, op) == {i \in 1..Len(made) : made[i].op = op}

\* the telemetry report is a JSON object whose process entries all name a pid
WellFormed(out) ==
    /\ out.kind = "text" /\ out.noise = 0 /\ out.form = "object"
    /\ Has(out.obj, "processes")
    /\ \A i \in 1..Len(out.obj["processes"]) : Has(out.obj["processes"][i], "pid")

\* C19: a call of collect_data that rebuilds calls the telemetry script
\* exactly once, whatever the outcome; on a well-formed report it then calls
\* get_container_info exactly once per process entry, in the order of the
\* entries, and only after the last of these calls does the aggregation
\* start; on any report it never calls the resolver more often than there
\* are entries.
C19_OneCallPerStep ==
    \A out \in feed :
        (Len(completed) >= 1 /\ LastCall(completed).built)
        => LET made == LastCall(completed).calls
               resolver == CallsOf(made, "get_container_info")
           IN  /\ CallsOf(made, "run_nvitop_script") = {1}
               /\ LastCall(completed).raised => made = <<ScriptCall>>
               /\ (out.kind = "text" /\ out.form = "object"
                   /\ Has(out.obj, "processes"))
                  => Cardinality(resolver) <= Len(out.obj["processes"])
               /\ WellFormed(out)
                  => /\ resolver = 2..(Len(out.obj["processes"]) + 1)
                     /\ \A i \in 1..Len(out.obj["processes"]) :
                           made[i + 1].arg = out.obj["processes"][i].pid
                     /\ \A i \in CallsOf(made, "aggregate") :
                           i = Len(out.obj["processes"]) + 2

\* a rebuild ended with a success Snapshot after one script call, one
\* resolver call for pid 200, one for pid 100, and then the aggregation
C19_Witness ==
    /\ Len(completed) = 1
    /\ ~Failed(completed[1])
    /\ completed[1].calls =
          <<ScriptCall, CallOf("get_container_info", 200),
            CallOf("get_container_info", 100), Aggregation>>

\* a rebuild ended with an error Snapshot after one script call and one
\* resolver call: the second entry has no pid, and nothing was tried again
C19_FailedStepNotRetried ==
    /\ Len(completed) = 1
    /\ ~completed[1].raised
    /\ IsError(completed[1].value)
    /\ completed[1].calls = <<ScriptCall, CallOf("get_container_info", 100)>>

\* C20: the clock never going back, a Snapshot returned from the cache
\* branch (line 125) is fresh for its caller: the caller's time minus the
\* Snapshot's timestamp is less than update_interval, whatever the
\* interleaving of the request threads.
C20_CachedSnapshotFresh ==
    (Len(completed) >= 1 /\ ~LastCall(completed).built)
    => LastCall(completed).time - LastCall(completed).value.timestamp
          < update_interval

\* C21: last_data is the initial {} or a success Snapshot in every reachable
\* state: no error Snapshot is stored, and a call served from the cache
\* branch never returns one.
C21_NoErrorInCache ==
    /\ Truthy(last_data) => DOMAIN last_data = SuccessKeys
    /\ (Len(completed) >= 1 /\ ~LastCall(completed).built)
          => DOMAIN LastCall(completed).value = SuccessKeys

\* a rebuild has just returned an error Snapshot while the cache holds the
\* success Snapshot of an earlier build
C21_Witness ==
    /\ Len(completed) >= 1
    /\ LastCall(completed).built
    /\ ~LastCall(completed).raised
    /\ IsError(LastCall(completed).value)
    /\ Truthy(last_data)
    /\ ~IsError(last_data)

\* the call ended with an error Snapshot built by a rebuild
ErrorRebuild(call) == call.built /\ ~call.raised /\ IsError(call.value)

\* the telemetry script printed a document the try block can build from
Recovered(out) ==
    /\ WellFormed(out)
    /\ Has(out.obj, "gpu_info")
    /\ \A i \in 1..Len(out.obj["processes"]) :
          {"gpu_index", "gpu_memory"} \subseteq DOMAIN out.obj["processes"][i]

\* C22: with calls that follow one another, the step in which a rebuild
\* returns an error Snapshot leaves last_data and last_update_time as they
\* are, and they are still what the call before left (the Snapshot it
\* returned, with its build time), a Snapshot the failed call does not
\* return; the call after a failed rebuild rebuilds, and when the
\* telemetry script then prints a good document it builds a success
\* Snapshot.
C22_FailedRebuildFrame ==
    [][\A t \in Threads :
          /\ (Ends(t) /\ ErrorRebuild(LastCall(completed')))
             => /\ last_data' = last_data
                /\ last_update_time' = last_update_time
                /\ LastCall(completed').value # last_data
                /\ (Len(completed) >= 1 /\ ~Failed(LastCall(completed)))
                   => /\ last_data = LastCall(completed).value
                      /\ last_update_time = LastCall(completed).value.timestamp
                /\ Len(completed) = 0
                   => last_data = EmptyDict /\ last_update_time = 0
          /\ (Ends(t) /\ Len(completed) >= 1 /\ ErrorRebuild(LastCall(completed)))
             => LastCall(completed').built
          /\ (pc[t] = "l245" /\ pc'[t] # "l245" /\ Len(completed) >= 1
              /\ ErrorRebuild(LastCall(completed)) /\ Recovered(output[t]))
             => /\ pc'[t] = "l326"
                /\ DOMAIN data'[t] = SuccessKeys
          /\ (pc[t] = "l329" /\ Ends(t))
             => LastCall(completed').value = data[t]]_vars

\* a successful rebuild was followed by a rebuild that returned an error
\* Snapshot, and the cache still holds the Snapshot of the first
C22_Witness ==
    /\ Len(completed) = 2
    /\ AllIdle
    /\ completed[1].built
    /\ ~Failed(completed[1])
    /\ ErrorRebuild(completed[2])
    /\ last_data = completed[1].value
    /\ last_update_time = completed[1].time

\* a rebuild that returned an error Snapshot was followed by a rebuild that
\* returned a success Snapshot
C22_RecoveryWitness ==
    /\ Len(completed) = 2
    /\ ErrorRebuild(completed[1])
    /\ completed[2].built
    /\ ~Failed(completed[2])

\* C23: whenever no call of collect_data is in progress and last_data is not
\* empty, last_update_time is the timestamp of last_data, also after calls
\* whose rebuilds overlapped.
C23_TimeMatchesData ==
    (AllIdle /\ Truthy(last_data))
    => last_update_time = last_data.timestamp

\* C24: in every success Snapshot a rollup has container_name "Host System"
\* if and only if its container_id is "Host": the processes of a numeric
\* container are never rolled up under the host label, whatever name the
\* resolver gave them.
C24_HostLabelIffHost ==
    \A s \in SuccessSnapshots :
        \A k \in DOMAIN s.container_processes :
            (s.container_processes[k].container_name = "Host System")
                <=> (s.container_processes[k].container_id = "Host")

====
